---- MODULE Spec2Model ----
(***************************************************************************)
(* DYBClient (DYBClient.ts): the connection manager, the frame decoder,    *)
(* the event dispatch and the outbound encoder of the Dock Your Boat       *)
(* remote control client, together with the transports (net.Socket) and    *)
(* the reconnect timeouts the client creates in the Node event loop.       *)
(***************************************************************************)
EXTENDS Integers, Sequences, FiniteSets, TLC

\* ------------------------------------------------------------------ bounds
\* transports (net.Socket objects) one run may create
MaxSockets == 3
\* characters the frame buffer may hold when a data chunk arrives
MaxBuffer == 3
\* frames written to one transport that the session log keeps
MaxWrites == 2
\* bytes of the inbound stream whose splits into chunks are explored
MaxStream == 4
\* the numbers given to the send methods lie in -MaxInput..MaxInput
MaxInput == 2

\* ------------------------------------------------------- program constants
\* options.groupId default
DefaultGroupId == 1
\* numbers are fixed point: the integer n stands for n / Scale
Scale == 100

\* ------------------------------------------------------------------- state
VARIABLES
    state,           \* this.state
    socket,          \* this.socket: 0 (null) or the transport's number
    reconnectTimer,  \* this.reconnectTimer is not null
    buffer,          \* this.buffer, a sequence of characters
    autoReconnect,   \* this.options.autoReconnect
    errorListener,   \* a listener is registered for 'error'
    trans,           \* the transports: status and whether it ever connected
    nsock,           \* transports created so far
    pendingTimers,   \* armed reconnect timeouts in the event loop
    crashed,         \* an exception escaped a handler: the process is gone
    emitted,         \* events the last step delivered to subscribers
    written,         \* frames the last step wrote to a transport
    warned,          \* the last step called console.warn
    lastOp,          \* the last step
    lastSock,        \* the transport the last step's event belonged to
    reaction,        \* what a listener called from inside the last step
    sessionWrites,   \* kinds of the frames written to the owned transport
    userDisc,        \* disconnect() was called and connect() not since
    sessionLost,     \* a Connected session closed; not Connected again since
    whole,           \* the bytes the game sends on the observed connection
    wire,            \* the bytes of whole not yet delivered to the client
    lines,           \* the lines handed to processMessage so far
    lastArg,         \* the value the last send call was given
    lastTarget,      \* the key, engine or sail the last send call was given
    chunk            \* the bytes the last data event carried

vars == <<state, socket, reconnectTimer, buffer, autoReconnect, errorListener,
          trans, nsock, pendingTimers, crashed, emitted, written, warned,
          lastOp, lastSock, reaction, sessionWrites, userDisc, sessionLost,
          whole, wire, lines, lastArg, lastTarget, chunk>>

\* enum ConnectionState
Disconnected == "DISCONNECTED"
Connecting == "CONNECTING"
Connected == "CONNECTED"
Error == "ERROR"
ConnectionState == {Disconnected, Connecting, Connected, Error}

Sockets == 1..MaxSockets

\* a transport is live while it is connecting or connected
Live(t) == t.st \in {"connecting", "connected"}

\* The fields the connection manager's methods read and write, with the
\* transports and timeouts they act on, as one value the methods transform.
Client ==
    [state |-> state, socket |-> socket, reconnectTimer |-> reconnectTimer,
     trans |-> trans, nsock |-> nsock, pendingTimers |-> pendingTimers,
     warned |-> FALSE, userDisc |-> userDisc, sessionLost |-> sessionLost,
     sessionWrites |-> sessionWrites]

\* ------------------------------------------------------ connection manager
\* a faulty early return of connect(): the Connecting state is forgotten
ConnectGuard_ConnectedOnly(c) == c.state = Connected

\* connect(): the early return of lines 53-56
ConnectGuard(c) == c.state = Connected \/ c.state = Connecting

\* connect() can run: it returns early, or there is a transport left to create
CanConnect(c) == ConnectGuard(c) \/ c.nsock < MaxSockets

\* connect(): lines 52-92
connect(c) ==
    IF ConnectGuard(c)
    THEN [c EXCEPT !.warned = TRUE]
    ELSE [c EXCEPT !.state = Connecting,
                   !.nsock = c.nsock + 1,
                   !.socket = c.nsock + 1,
                   !.trans[c.nsock + 1] = [st |-> "connecting", up |-> FALSE],
                   !.sessionWrites = <<>>]

\* socket.destroy(): a live transport is torn down, its close event follows
destroy(t) == IF Live(t) THEN [t EXCEPT !.st = "destroyed"] ELSE t

\* a faulty disconnect(): the reconnect timeout is left armed
disconnect_KeepTimer(c) ==
    LET c2 == IF c.socket # 0
              THEN [c EXCEPT !.trans[c.socket] = destroy(c.trans[c.socket]),
                             !.socket = 0]
              ELSE c
    IN  [c2 EXCEPT !.state = Disconnected]

\* disconnect(): lines 97-109
disconnect(c) ==
    LET c1 == IF c.reconnectTimer
              THEN [c EXCEPT !.reconnectTimer = FALSE,
                             !.pendingTimers = c.pendingTimers - 1]
              ELSE c
        c2 == IF c1.socket # 0
              THEN [c1 EXCEPT !.trans[c1.socket] = destroy(c1.trans[c1.socket]),
                              !.socket = 0]
              ELSE c1
    IN  [c2 EXCEPT !.state = Disconnected]

\* a faulty scheduleReconnect(): the pending timeout is not looked at
scheduleReconnect_NoGuard(c) ==
    [c EXCEPT !.reconnectTimer = TRUE, !.pendingTimers = c.pendingTimers + 1]

\* scheduleReconnect(): lines 293-304
scheduleReconnect(c) ==
    IF c.reconnectTimer
    THEN c
    ELSE [c EXCEPT !.reconnectTimer = TRUE,
                   !.pendingTimers = c.pendingTimers + 1]

\* a faulty wasConnected: the Error state counts as connected too
wasConnected_OrError(c) == c.state = Connected \/ c.state = Error

\* the close handler's wasConnected: line 81
wasConnected(c) == c.state = Connected

\* What a 'disconnected' subscriber does while the close handler is still
\* running: nothing, or a call back into the client.
Reaction == <<"none", "connect", "disconnect">>

\* a subscriber's call applied to the client
React(c, r) ==
    CASE r = "connect" -> [connect(c) EXCEPT !.userDisc = FALSE]
      [] r = "disconnect" -> [disconnect(c) EXCEPT !.userDisc = TRUE,
                                                   !.sessionLost = FALSE]
      [] OTHER -> c

\* the 'close' handler: lines 80-89. r is the subscriber's reaction to the
\* 'disconnected' event, which is emitted before the reconnect is scheduled.
onClose(c, r) ==
    LET was == wasConnected(c)
        c1 == [c EXCEPT !.state = Disconnected,
                        !.sessionLost = (c.sessionLost \/ was)]
        c2 == React(c1, r)
    IN  IF autoReconnect /\ was THEN scheduleReconnect(c2) ELSE c2

\* EventEmitter.emit throws the error itself when 'error' has no listener
EmitThrows(ev) == ev = "error" /\ ~errorListener

\* an event as a subscriber sees it: name, frame of the chunk, payload
Event(ev, frame, arg) == [ev |-> ev, frame |-> frame, arg |-> arg]

\* ------------------------------------------------------- outbound encoder
\* ControlValue as the methods see it: its runtime type and, for a number,
\* its fixed-point value (for a boolean 1 or 0); nan marks the number NaN
Value(kind, num) == [kind |-> kind, num |-> num, nan |-> FALSE]

\* the number NaN
NaN == [kind |-> "number", num |-> 0, nan |-> TRUE]

\* a finite number
Num(n) == Value("number", n)

\* no value: the last step was no send call
NoArg == Value("none", 0)

\* Number.isInteger(value)
NumberIsInteger(value) == ~value.nan /\ value.num % Scale = 0

\* a faulty getTypeCode(): every number is taken for a float
getTypeCode_AlwaysFloat(value) ==
    IF value.kind = "number" THEN "F"
    ELSE IF value.kind = "boolean" THEN "B"
    ELSE IF value.kind = "string" THEN "S"
    ELSE IF value.kind = "object" THEN "J"
    ELSE "S"

\* getTypeCode(): lines 309-320
getTypeCode(value) ==
    IF value.kind = "number"
    THEN (IF NumberIsInteger(value) THEN "I" ELSE "F")
    ELSE IF value.kind = "boolean" THEN "B"
    ELSE IF value.kind = "string" THEN "S"
    ELSE IF value.kind = "object" THEN "J"
    ELSE "S"

\* Math.min(a, b) and Math.max(a, b): NaN if either argument is NaN
MathMin(a, b) == IF a.nan \/ b.nan THEN NaN ELSE IF a.num <= b.num THEN a ELSE b
MathMax(a, b) == IF a.nan \/ b.nan THEN NaN ELSE IF a.num >= b.num THEN a ELSE b

\* Math.round(x): the nearest integer, a tie going up; NaN for NaN
MathRound(x) ==
    IF x.nan THEN NaN ELSE Num(((x.num + Scale \div 2) \div Scale) * Scale)

\* clamp(): lines 325-327
clamp(value, min, max) == MathMax(min, MathMin(max, value))

\* a number in decimal notation, as JSON.stringify writes it: no trailing
\* zeros, no decimal point for an integer
NumberToString(n) ==
    LET a == IF n < 0 THEN 0 - n ELSE n
        frac == a % Scale
        text == ToString(a \div Scale) \o
                (IF frac = 0 THEN ""
                 ELSE "." \o ToString(frac \div 10) \o
                      (IF frac % 10 = 0 THEN "" ELSE ToString(frac % 10)))
    IN  IF n < 0 THEN "-" \o text ELSE text

\* JSON.stringify of the v property: NaN is written as null, a value of no
\* JSON type (undefined) has its property left out
JSONvalue(value) ==
    CASE value.kind = "number" ->
             IF value.nan THEN "null" ELSE NumberToString(value.num)
      [] value.kind = "boolean" -> IF value.num = 1 THEN "true" ELSE "false"
      [] value.kind = "string" -> "\"text\""
      [] value.kind = "object" -> "{}"
      [] OTHER -> ""

\* JSON.stringify(message): line 205
JSONstringify(message) ==
    "{\"" \o message.key \o "\":{\"t\":\"" \o message.t \o "\""
    \o (IF JSONvalue(message.v) = "" THEN ""
        ELSE ",\"v\":" \o JSONvalue(message.v))
    \o "}}"

\* the null byte that ends an outbound frame, written \0
NUL == "\\0"

\* isConnected(): lines 121-123
isConnected(c) == c.state = Connected

\* the subscription announcement the game expects: part_000 lines 132-144
IsSubscription(f) == f.key = "RemoteMessenger" /\ f.t = "J"

FrameKind(f) == IF IsSubscription(f) THEN "subscription" ELSE "control"

\* a faulty early return of sendMessage(): only the socket handle is looked at
sendGuard_SocketOnly(c) == c.socket = 0

\* sendMessage(): the early return of lines 199-202
sendGuard(c) == ~isConnected(c) \/ c.socket = 0

\* a faulty sendMessage(): the frame ends with a newline, not with NUL
sendMessage_NewlineEnd(c, message) ==
    IF c.state # Connected \/ c.socket = 0
    THEN <<>>
    ELSE <<[sock |-> c.socket, gid |-> DefaultGroupId, key |-> message.key,
            t |-> message.t, v |-> message.v,
            data |-> ToString(DefaultGroupId) \o JSONstringify(message)
                     \o "\n"]>>

\* sendMessage(): lines 198-213. The result is the frames handed to
\* socket.write: data is the text written, the group id in string form, the
\* JSON text and one NUL.
sendMessage(c, message) ==
    IF sendGuard(c)
    THEN <<>>
    ELSE <<[sock |-> c.socket, gid |-> DefaultGroupId, key |-> message.key,
            t |-> message.t, v |-> message.v,
            data |-> ToString(DefaultGroupId) \o JSONstringify(message)
                     \o NUL]>>

\* sendControl(): lines 128-138
sendControl(c, key, value) ==
    sendMessage(c, [key |-> key, t |-> getTypeCode(value), v |-> value])

\* sendRudder(): lines 143-145
sendRudder(c, value) ==
    sendControl(c, "BoatRuder", clamp(value, Num(0 - Scale), Num(Scale)))

\* sendThrottle(): lines 150-153
sendThrottle(c, value, engine) ==
    sendControl(c, "BoatThrottle" \o ToString(engine),
                clamp(value, Num(0 - Scale), Num(Scale)))

\* sendEngineState(): lines 158-160
sendEngineState(c, on) == sendControl(c, "BoatEngineOn", on)

\* sendBowThruster(): lines 165-167
sendBowThruster(c, value) ==
    sendControl(c, "BowThruster",
                MathMax(Num(0 - Scale), MathMin(Num(Scale), MathRound(value))))

\* sendSailControl(): lines 186-189
sendSailControl(c, sail, value) ==
    sendControl(c, "Sail." \o sail, clamp(value, Num(0), Num(Scale)))

\* the session log keeps the kinds of the first MaxWrites frames
Logged(log, frames) ==
    IF frames = <<>> \/ Len(log) >= MaxWrites
    THEN log
    ELSE Append(log, FrameKind(frames[1]))

\* what the demo's 'connected' listener writes: nothing (it only arms the
\* timeout that starts the test sequence)
DemoOnConnected == <<>>

\* ----------------------------------------------------------- frame decoder
NL == "\n"

\* buffer.includes(ch)
Includes(s, ch) == \E k \in 1..Len(s) : s[k] = ch

\* buffer.indexOf(ch), counted from 1; only used when ch occurs
IndexOf(s, ch) == CHOOSE k \in 1..Len(s) :
                      s[k] = ch /\ \A j \in 1..(k - 1) : s[j] # ch

\* The JSON texts of the model are "{x}" for a body character x, "{}" (the
\* object without keys) and "1" (the number one); every other text makes
\* JSON.parse throw.
Bodies == {"B", "b", "P", "M", "D", "d", "A", "U", "W"}

NoKey == [has |-> FALSE, t |-> "", Props |-> FALSE, Msg |-> FALSE]
Key(t, props, msg) == [has |-> TRUE, t |-> t, Props |-> props, Msg |-> msg]

\* the message a body character stands for: which well-known keys it has,
\* their envelope tags, and the shapes under the messenger key
Decoded(x) ==
    [ok |-> TRUE, body |-> x,
     PlayerMessenger |->
        CASE x \in {"B", "W"} -> Key("J", TRUE, TRUE)
          [] x = "b" -> Key("S", TRUE, TRUE)
          [] x = "P" -> Key("J", TRUE, FALSE)
          [] x = "M" -> Key("J", FALSE, TRUE)
          [] OTHER -> NoKey,
     AP_display |->
        CASE x \in {"D", "W"} -> Key("S", FALSE, FALSE)
          [] x = "d" -> Key("I", FALSE, FALSE)
          [] OTHER -> NoKey,
     AP_active |->
        CASE x = "A" -> Key("B", FALSE, FALSE)
          [] OTHER -> NoKey]

\* JSON.parse(jsonStr): line 248
JSONparse(text) ==
    IF Len(text) = 3 /\ text[1] = "{" /\ text[3] = "}" /\ text[2] \in Bodies
    THEN Decoded(text[2])
    ELSE IF text = <<"1">>
    THEN [Decoded("1") EXCEPT !.body = "1"]
    ELSE IF text = <<"{", "}">>
    THEN [Decoded("{}") EXCEPT !.body = "{}"]
    ELSE [Decoded("?") EXCEPT !.ok = FALSE]

\* a faulty parseSpecialMessages(): Msg is looked at before Props
parseSpecialMessages_MsgFirst(message, k) ==
    (IF message.PlayerMessenger.has /\ message.PlayerMessenger.t = "J"
     THEN (IF message.PlayerMessenger.Msg
           THEN <<Event("gameNotification", k, message.body)>> ELSE <<>>)
          \o (IF message.PlayerMessenger.Props
              THEN <<Event("boatProperties", k, message.body)>> ELSE <<>>)
     ELSE <<>>)
    \o (IF message.AP_display.has /\ message.AP_display.t = "S"
        THEN <<Event("compassDisplay", k, message.body)>> ELSE <<>>)

\* a faulty parseSpecialMessages(): the tag of AP_display is not looked at
parseSpecialMessages_AnyDisplayTag(message, k) ==
    (IF message.PlayerMessenger.has /\ message.PlayerMessenger.t = "J"
     THEN (IF message.PlayerMessenger.Props
           THEN <<Event("boatProperties", k, message.body)>> ELSE <<>>)
          \o (IF message.PlayerMessenger.Msg
              THEN <<Event("gameNotification", k, message.body)>> ELSE <<>>)
     ELSE <<>>)
    \o (IF message.AP_display.has
        THEN <<Event("compassDisplay", k, message.body)>> ELSE <<>>)

\* a faulty parseSpecialMessages(): the tag of PlayerMessenger is not looked at
parseSpecialMessages_AnyMessengerTag(message, k) ==
    (IF message.PlayerMessenger.has
     THEN (IF message.PlayerMessenger.Props
           THEN <<Event("boatProperties", k, message.body)>> ELSE <<>>)
          \o (IF message.PlayerMessenger.Msg
              THEN <<Event("gameNotification", k, message.body)>> ELSE <<>>)
     ELSE <<>>)
    \o (IF message.AP_display.has /\ message.AP_display.t = "S"
        THEN <<Event("compassDisplay", k, message.body)>> ELSE <<>>)

\* parseSpecialMessages(): lines 261-288; the events it emits for frame k
parseSpecialMessages(message, k) ==
    (IF message.PlayerMessenger.has /\ message.PlayerMessenger.t = "J"
     THEN (IF message.PlayerMessenger.Props
           THEN <<Event("boatProperties", k, message.body)>> ELSE <<>>)
          \o (IF message.PlayerMessenger.Msg
              THEN <<Event("gameNotification", k, message.body)>> ELSE <<>>)
     ELSE <<>>)
    \o (IF message.AP_display.has /\ message.AP_display.t = "S"
        THEN <<Event("compassDisplay", k, message.body)>> ELSE <<>>)

\* a faulty processMessage(): a text JSON.parse rejects is emitted all the same
processMessage_EmitsUnparsed(line, k) ==
    IF Len(line) < 2
    THEN <<>>
    ELSE LET message == JSONparse(Tail(line))
         IN  <<Event("message", k, message.body)>>
             \o parseSpecialMessages(message, k)

\* processMessage(): lines 236-256; the events it emits for frame k. A
\* JSON.parse that throws is caught and nothing is emitted.
processMessage(line, k) ==
    IF Len(line) < 2
    THEN <<>>
    ELSE LET message == JSONparse(Tail(line))
         IN  IF ~message.ok
             THEN <<>>
             ELSE <<Event("message", k, message.body)>>
                  \o parseSpecialMessages(message, k)

\* the loop of handleData(): lines 222-230. k counts the lines taken out.
RECURSIVE Drain(_, _, _)
Drain(buf, k, events) ==
    IF ~Includes(buf, NL)
    THEN [buffer |-> buf, events |-> events]
    ELSE LET lineEnd == IndexOf(buf, NL)
             line == SubSeq(buf, 1, lineEnd - 1)
             rest == SubSeq(buf, lineEnd + 1, Len(buf))
         IN  Drain(rest, k + 1,
                   IF Len(line) > 0
                   THEN events \o processMessage(line, k)
                   ELSE events)

\* a faulty handleData(): what the buffer held is dropped, not prefixed
handleData_FreshBuffer(buf, data) == Drain(data, 1, <<>>)

\* handleData(): lines 218-231
handleData(buf, data) == Drain(buf \o data, 1, <<>>)

\* the lines the loop of handleData() hands to processMessage: lines 222-230
RECURSIVE Taken(_)
Taken(buf) ==
    IF ~Includes(buf, NL)
    THEN <<>>
    ELSE LET lineEnd == IndexOf(buf, NL)
             line == SubSeq(buf, 1, lineEnd - 1)
             rest == SubSeq(buf, lineEnd + 1, Len(buf))
         IN  (IF Len(line) > 0 THEN <<line>> ELSE <<>>) \o Taken(rest)

\* The bytes of a transport: an ASCII character is one byte, written as the
\* character; Lead and Cont are the two bytes of one two-byte UTF-8 character.
Lead == "C3"
Cont == "BC"

\* Buffer.toString() of one chunk, line 71: UTF-8 decoding. Every byte that
\* is not part of a complete character of the chunk becomes U+FFFD.
RECURSIVE toString(_)
toString(bytes) ==
    IF bytes = <<>>
    THEN <<>>
    ELSE IF bytes[1] = Lead /\ Len(bytes) >= 2 /\ bytes[2] = Cont
    THEN <<"U+00FC">> \o toString(SubSeq(bytes, 3, Len(bytes)))
    ELSE IF bytes[1] \in {Lead, Cont}
    THEN <<"U+FFFD">> \o toString(Tail(bytes))
    ELSE <<bytes[1]>> \o toString(Tail(bytes))

\* an inbound frame: routing character, JSON text, newline
Frame(x) == <<"1", "{", x, "}", NL>>

\* The data chunks a transport delivers: every well-formed frame whole, a
\* frame in two pieces, chunks of two frames, and malformed frames.
Chunks ==
    {Frame(x) : x \in Bodies}
    \cup {<<"1", "{">>, <<"B", "}", NL>>}
    \cup {Frame("B") \o Frame("P"), Frame("U") \o Frame("D"),
          <<"1", "{", NL>> \o Frame("W")}
    \cup {<<NL>>, <<"1", NL>>, <<"1", "1", NL>>, <<"1", "{", "}", NL>>,
          <<"1", "}", NL>> \o Frame("M")}

\* the chunks sessions that end and begin again are explored with: a frame
\* in two pieces, and a chunk of two frames
SessionChunks == {<<"1", "{">>, <<"B", "}", NL>>, Frame("U") \o Frame("D")}

\* the chunks the connection life cycle is explored with: whole frames
WholeFrames == {Frame("W"), Frame("U")}

\* the keys and values the send actions draw from: type ControlKey
ControlKeys == {"BoatRuder", "BoatEngineOn"}
Values == {Value("boolean", 1)}

\* the numbers the send methods are called with: the multiples of 1/Grid
\* between -MaxInput and MaxInput, a quarter, and NaN
Grid == 10
Numbers ==
    {Num(k * (Scale \div Grid)) : k \in (0 - Grid * MaxInput)..(Grid * MaxInput)}
    \cup {Num(Scale \div 4), NaN}
Booleans == {Value("boolean", 0), Value("boolean", 1)}
\* values of every runtime type getTypeCode() tells apart
AnyValues == {Num(Scale), Num(Scale \div 2), NaN, Value("boolean", 1),
              Value("string", 0), Value("object", 0), Value("undefined", 0)}
\* sendThrottle's engine argument (any number may be given; it is 0 when
\* the argument is left out) and sendSailControl's sail argument
DefaultEngine == 0
Engines == {DefaultEngine, 1, 2}
Sails == {"Main.Size", "Genoa.SheetLeft"}

\* the inbound byte streams: every sequence of 1..MaxStream bytes
Bytes == {"1", NL, Lead, Cont}
Streams == UNION {[1..n -> Bytes] : n \in 1..MaxStream}

\* ---------------------------------------------------------------- actions
NoOutput == /\ emitted' = <<>>
            /\ written' = <<>>

\* the step is no send call and no data event
Quiet == /\ lastArg' = NoArg
         /\ lastTarget' = ""
         /\ chunk' = <<>>
         /\ UNCHANGED <<whole, wire, lines>>

\* the client's fields and the runtime take the values of c
Apply(c) ==
    /\ state' = c.state
    /\ socket' = c.socket
    /\ reconnectTimer' = c.reconnectTimer
    /\ trans' = c.trans
    /\ nsock' = c.nsock
    /\ pendingTimers' = c.pendingTimers
    /\ warned' = c.warned
    /\ userDisc' = c.userDisc
    /\ sessionLost' = c.sessionLost
    /\ sessionWrites' = c.sessionWrites

Constructed ==
    /\ state = Disconnected
    /\ socket = 0
    /\ reconnectTimer = FALSE
    /\ buffer = <<>>
    /\ autoReconnect \in BOOLEAN
    /\ errorListener = FALSE
    /\ trans = [i \in Sockets |-> [st |-> "unused", up |-> FALSE]]
    /\ nsock = 0
    /\ pendingTimers = 0
    /\ crashed = FALSE
    /\ emitted = <<>>
    /\ written = <<>>
    /\ warned = FALSE
    /\ lastOp = "new"
    /\ lastSock = 0
    /\ reaction = "none"
    /\ sessionWrites = <<>>
    /\ userDisc = FALSE
    /\ sessionLost = FALSE
    /\ lines = <<>>
    /\ lastArg = NoArg
    /\ lastTarget = ""
    /\ chunk = <<>>

Init ==
    /\ Constructed
    /\ whole = <<>>
    /\ wire = <<>>

\* client.on('error', listener)
OnError ==
    /\ ~crashed
    /\ ~errorListener
    /\ errorListener' = TRUE
    /\ lastOp' = "on"
    /\ Quiet
    /\ lastSock' = 0
    /\ reaction' = "none"
    /\ warned' = FALSE
    /\ NoOutput
    /\ UNCHANGED <<state, socket, reconnectTimer, buffer, autoReconnect, trans,
                   nsock, pendingTimers, crashed, sessionWrites, userDisc,
                   sessionLost>>

\* the user calls connect()
Connect ==
    /\ ~crashed
    /\ CanConnect(Client)
    /\ Apply([connect(Client) EXCEPT !.userDisc = FALSE])
    /\ lastOp' = "connect"
    /\ Quiet
    /\ lastSock' = 0
    /\ reaction' = "none"
    /\ NoOutput
    /\ UNCHANGED <<buffer, autoReconnect, errorListener, crashed>>

\* the user calls disconnect()
Disconnect ==
    /\ ~crashed
    /\ Apply([disconnect(Client) EXCEPT !.userDisc = TRUE,
                                        !.sessionLost = FALSE])
    /\ lastOp' = "disconnect"
    /\ Quiet
    /\ lastSock' = 0
    /\ reaction' = "none"
    /\ NoOutput
    /\ UNCHANGED <<buffer, autoReconnect, errorListener, crashed>>

\* the reconnect timeout fires: lines 300-303
TimerFire ==
    /\ ~crashed
    /\ pendingTimers > 0
    /\ LET c == [Client EXCEPT !.reconnectTimer = FALSE,
                               !.pendingTimers = pendingTimers - 1]
       IN  /\ CanConnect(c)
           /\ Apply(connect(c))
    /\ lastOp' = "timer"
    /\ Quiet
    /\ lastSock' = 0
    /\ reaction' = "none"
    /\ NoOutput
    /\ UNCHANGED <<buffer, autoReconnect, errorListener, crashed>>

\* transport i connects: the 'connect' handler, lines 63-68
SockConnect(i) ==
    /\ ~crashed
    /\ trans[i].st = "connecting"
    /\ Apply([Client EXCEPT !.state = Connected,
                            !.trans[i] = [st |-> "connected", up |-> TRUE],
                            !.sessionLost = FALSE])
    /\ emitted' = <<Event("connected", 0, "")>>
    /\ written' = DemoOnConnected
    /\ lastOp' = "sockConnect"
    /\ Quiet
    /\ lastSock' = i
    /\ reaction' = "none"
    /\ UNCHANGED <<buffer, autoReconnect, errorListener, crashed>>

\* transport i fails: the 'error' handler, lines 74-78; Node destroys the
\* transport, whose close event follows
SockError(i) ==
    /\ ~crashed
    /\ Live(trans[i])
    /\ Apply([Client EXCEPT !.state = Error, !.trans[i].st = "errored"])
    /\ IF EmitThrows("error")
       THEN /\ emitted' = <<>>
            /\ crashed' = TRUE
       ELSE /\ emitted' = <<Event("error", 0, "cause")>>
            /\ crashed' = FALSE
    /\ written' = <<>>
    /\ lastOp' = "error"
    /\ Quiet
    /\ lastSock' = i
    /\ reaction' = "none"
    /\ UNCHANGED <<buffer, autoReconnect, errorListener>>

\* transport i closes (the peer closed it, or it failed or was destroyed
\* before): the 'close' handler, lines 80-89
SockClose(i, r) ==
    /\ ~crashed
    /\ trans[i].st \in {"connected", "errored", "destroyed"}
    /\ LET c == [Client EXCEPT !.trans[i].st = "closed"]
       IN  /\ r = "connect" => CanConnect([c EXCEPT !.state = Disconnected])
           /\ Apply(onClose(c, r))
    /\ emitted' = <<Event("disconnected", 0, "")>>
    /\ written' = <<>>
    /\ lastOp' = "close"
    /\ Quiet
    /\ lastSock' = i
    /\ reaction' = r
    /\ UNCHANGED <<buffer, autoReconnect, errorListener, crashed>>

\* the 'data' handler, lines 70-72, run for the chunk bytes of transport i
DataHandler(i, bytes) ==
    /\ ~crashed
    /\ trans[i].st = "connected"
    /\ LET r == handleData(buffer, toString(bytes))
       IN  /\ buffer' = r.buffer
           /\ emitted' = r.events
    /\ written' = <<>>
    /\ warned' = FALSE
    /\ lastOp' = "data"
    /\ lastSock' = i
    /\ reaction' = "none"
    /\ lastArg' = NoArg
    /\ lastTarget' = ""
    /\ chunk' = bytes
    /\ UNCHANGED <<state, socket, reconnectTimer, autoReconnect, errorListener,
                   trans, nsock, pendingTimers, crashed, sessionWrites,
                   userDisc, sessionLost, whole>>

\* transport i delivers a chunk
SockData(i, data) ==
    /\ Len(buffer) <= MaxBuffer
    /\ DataHandler(i, data)
    /\ UNCHANGED <<wire, lines>>

\* transport i delivers the next n bytes of the observed stream as one chunk
SockStream(i, n) ==
    /\ n \in 1..Len(wire)
    /\ DataHandler(i, SubSeq(wire, 1, n))
    /\ wire' = SubSeq(wire, n + 1, Len(wire))
    /\ lines' = lines \o Taken(buffer \o toString(SubSeq(wire, 1, n)))

\* transport i delivers a chunk, and the subscriber that gets the first
\* event of it calls disconnect() from inside its listener; the loop of
\* handleData() goes on with the rest of the buffer
SockDataDisconnect(i, data) ==
    /\ ~crashed
    /\ trans[i].st = "connected"
    /\ Len(buffer) <= MaxBuffer
    /\ LET r == handleData(buffer, toString(data))
       IN  /\ r.events # <<>>
           /\ buffer' = r.buffer
           /\ emitted' = r.events
    /\ Apply(React(Client, "disconnect"))
    /\ written' = <<>>
    /\ lastOp' = "data"
    /\ lastSock' = i
    /\ reaction' = "disconnect"
    /\ lastArg' = NoArg
    /\ lastTarget' = ""
    /\ chunk' = data
    /\ UNCHANGED <<autoReconnect, errorListener, crashed, whole, wire, lines>>

\* a send call: op is the method, target and arg what it was given, frames
\* what sendMessage() handed to the transport
Send(op, target, arg, frames) ==
    /\ ~crashed
    /\ written' = frames
    /\ warned' = sendGuard(Client)
    /\ sessionWrites' = Logged(sessionWrites, frames)
    /\ emitted' = <<>>
    /\ lastOp' = op
    /\ lastSock' = 0
    /\ reaction' = "none"
    /\ lastArg' = arg
    /\ lastTarget' = target
    /\ chunk' = <<>>
    /\ UNCHANGED <<state, socket, reconnectTimer, buffer, autoReconnect,
                   errorListener, trans, nsock, pendingTimers, crashed,
                   userDisc, sessionLost, whole, wire, lines>>

\* the user calls sendControl(key, value)
SendControl(key, value) ==
    Send("send", key, value, sendControl(Client, key, value))

\* the user calls sendRudder(value)
SendRudder(value) == Send("sendRudder", "", value, sendRudder(Client, value))

\* the user calls sendThrottle(value, engine)
SendThrottle(value, engine) ==
    Send("sendThrottle", ToString(engine), value,
         sendThrottle(Client, value, engine))

\* the user calls sendEngineState(on)
SendEngineState(on) ==
    Send("sendEngineState", "", on, sendEngineState(Client, on))

\* the user calls sendBowThruster(value)
SendBowThruster(value) ==
    Send("sendBowThruster", "", value, sendBowThruster(Client, value))

\* the user calls sendSailControl(sail, value)
SendSailControl(sail, value) ==
    Send("sendSailControl", sail, value, sendSailControl(Client, sail, value))

Next ==
    \/ OnError
    \/ Connect
    \/ Disconnect
    \/ TimerFire
    \/ \E i \in Sockets : SockConnect(i)
    \/ \E i \in Sockets : SockError(i)
    \/ \E i \in Sockets, k \in DOMAIN Reaction : SockClose(i, Reaction[k])
    \/ \E i \in Sockets, data \in WholeFrames : SockData(i, data)
    \/ \E key \in ControlKeys, value \in Values : SendControl(key, value)

Spec == Init /\ [][Next]_vars

\* One connection receiving data: the frame decoder and the dispatch are
\* explored with every chunk of Chunks, split frames included.
NextData ==
    \/ Connect
    \/ Disconnect
    \/ \E i \in Sockets : SockConnect(i)
    \/ \E i \in Sockets : SockClose(i, "none")
    \/ \E i \in Sockets, data \in Chunks : SockData(i, data)

SpecData == Init /\ [][NextData]_vars

\* Sessions that end, by disconnect(), error or close, and begin again, with
\* data that leaves a partial frame in the buffer and subscribers that call
\* disconnect() while a chunk is dispatched.
NextSession ==
    \/ OnError
    \/ Connect
    \/ Disconnect
    \/ \E i \in Sockets : SockConnect(i)
    \/ \E i \in Sockets : SockError(i)
    \/ \E i \in Sockets : SockClose(i, "none")
    \/ \E i \in Sockets, data \in SessionChunks : SockData(i, data)
    \/ \E i \in Sockets, data \in SessionChunks : SockDataDisconnect(i, data)

SpecSession == Init /\ [][NextSession]_vars

\* One connection and the send methods with every input of Numbers: the
\* outbound encoder.
NextSend ==
    \/ Connect
    \/ \E i \in Sockets : SockConnect(i)
    \/ \E key \in ControlKeys, value \in AnyValues : SendControl(key, value)
    \/ \E value \in Numbers : SendRudder(value)
    \/ \E value \in Numbers, engine \in Engines : SendThrottle(value, engine)
    \/ \E on \in Booleans : SendEngineState(on)
    \/ \E value \in Numbers : SendBowThruster(value)
    \/ \E sail \in Sails, value \in Numbers : SendSailControl(sail, value)

SpecSend == Init /\ [][NextSend]_vars

\* One connection on which the game sends the stream whole, delivered in
\* chunks of every size.
InitStream ==
    /\ Constructed
    /\ whole \in Streams
    /\ wire = whole

NextStream ==
    \/ Connect
    \/ \E i \in Sockets : SockConnect(i)
    \/ \E i \in Sockets, n \in 1..MaxStream : SockStream(i, n)

SpecStream == InitStream /\ [][NextStream]_vars

\* ------------------------------------------------------------------ claims
\* C1: connect() called while the state is Connecting or Connected opens no
\* transport, keeps the socket handle and the state; called in any other
\* state it opens exactly one transport and the state becomes Connecting, so
\* a second call right after the first opens nothing more.
C1_ConnectIdempotent ==
    [][lastOp' = "connect" =>
         IF state \in {Connecting, Connected}
         THEN /\ state' = state
              /\ socket' = socket
              /\ trans' = trans
              /\ nsock' = nsock
         ELSE /\ state' = Connecting
              /\ nsock' = nsock + 1
              /\ socket' = nsock'
              /\ Live(trans'[socket'])
              /\ \A i \in Sockets \ {socket'} : trans'[i] = trans[i]]_vars

\* a second connect() found the state Connecting and one transport open
C1_Witness ==
    /\ lastOp = "connect"
    /\ warned
    /\ state = Connecting
    /\ nsock = 1

\* C2 (as claimed): at most one transport created by the client is live
\* (connecting or connected, neither closed nor destroyed) at any time.
C2_AtMostOneLive == Cardinality({i \in Sockets : Live(trans[i])}) <= 1

\* C3 (as claimed): from a disconnect() call until the next connect() call
\* the state is Disconnected, no reconnect timer is pending and no transport
\* is owned, whatever events arrive in between.
C3_DisconnectIsFinal ==
    userDisc => /\ state = Disconnected
                /\ ~reconnectTimer
                /\ pendingTimers = 0
                /\ socket = 0

\* C4: a send issued while the state is not Connected writes nothing, raises
\* nothing and changes neither state, socket handle, reconnect timer nor
\* frame buffer; a frame is written only when the state is Connected.
C4_SendOnlyWhenConnected ==
    [][/\ (lastOp' = "send" /\ state # Connected) =>
              /\ written' = <<>>
              /\ crashed' = crashed
              /\ UNCHANGED <<state, socket, reconnectTimer, buffer, trans,
                             pendingTimers>>
       /\ written' # <<>> => (state = Connected /\ state' = Connected)]_vars

\* a send was refused, with a warning, in a state other than Connected
C4_Witness ==
    /\ lastOp = "send"
    /\ state \in {Disconnected, Connecting, Error}
    /\ written = <<>>
    /\ warned
    /\ ~crashed

\* C5 (as claimed): a transport error met in state Connecting or Connected
\* makes the state Error, is delivered as one error event with its cause,
\* and raises no exception, with or without an error listener.
C5_ErrorSurfacedNoCrash ==
    [][(lastOp' = "error" /\ state \in {Connecting, Connected}) =>
           /\ state' = Error
           /\ emitted' = <<Event("error", 0, "cause")>>
           /\ ~crashed']_vars

C7_NeverConnectedNoReconnect ==
    [][(lastOp' = "close" /\ ~trans[lastSock'].up) =>
           pendingTimers' <= pendingTimers]_vars

C9_SubscriptionFirst ==
    sessionWrites # <<>> => sessionWrites[1] = "subscription"

\* the messages that hold both a Props and a Msg shape under the messenger key
BothShapes == {x \in Bodies : /\ Decoded(x).PlayerMessenger.has
                              /\ Decoded(x).PlayerMessenger.Props
                              /\ Decoded(x).PlayerMessenger.Msg}

\* the events of one chunk come frame by frame, each frame's generic
\* message event once and before its specialized events
FrameOrder ==
    /\ \A i \in 1..(Len(emitted) - 1) : emitted[i].frame <= emitted[i + 1].frame
    /\ \A i \in 1..Len(emitted) :
          emitted[i].frame > 0 =>
              \E j \in 1..i : /\ emitted[j].ev = "message"
                              /\ emitted[j].frame = emitted[i].frame
                              /\ \A h \in 1..Len(emitted) :
                                    (/\ emitted[h].ev = "message"
                                     /\ emitted[h].frame = emitted[i].frame)
                                    => h = j

\* frame i of the chunk yields message, boatProperties, gameNotification
ThreeEvents(i) ==
    /\ i + 2 <= Len(emitted)
    /\ emitted[i + 1].ev = "boatProperties"
    /\ emitted[i + 2].ev = "gameNotification"
    /\ emitted[i + 1].frame = emitted[i].frame
    /\ emitted[i + 2].frame = emitted[i].frame
    /\ \A h \in 1..Len(emitted) :
          (/\ emitted[h].frame = emitted[i].frame
           /\ emitted[h].ev \in {"boatProperties", "gameNotification"})
          => h \in {i + 1, i + 2}

NLs(s) == {k \in 1..Len(s) : s[k] = NL}
NthNL(s, n) == CHOOSE k \in NLs(s) : Cardinality({j \in NLs(s) : j <= k}) = n

\* the newline-delimited segments of a text, in order, and the text after
\* its last newline
Segments(s) ==
    [n \in 1..Cardinality(NLs(s)) |->
        SubSeq(s, (IF n = 1 THEN 1 ELSE NthNL(s, n - 1) + 1), NthNL(s, n) - 1)]
Remainder(s) ==
    SubSeq(s, (IF NLs(s) = {} THEN 1 ELSE NthNL(s, Cardinality(NLs(s))) + 1),
           Len(s))
NonEmpty(l) == l # <<>>

\* C11 (as claimed): however the stream was split into chunks, once all of
\* it is delivered the lines handed to decoding are the newline-delimited
\* segments of the whole stream's text (the non-empty ones: an empty line is
\* dropped before decoding), in order and each once, and the buffer holds
\* the text after the last newline.
C11_SplitIndependent ==
    (whole # <<>> /\ wire = <<>>) =>
        /\ lines = SelectSeq(Segments(toString(whole)), NonEmpty)
        /\ buffer = Remainder(toString(whole))

\* the send methods
SendOps == {"send", "sendRudder", "sendThrottle", "sendEngineState",
            "sendBowThruster", "sendSailControl"}

\* the key a send call addresses
KeyOf(op, target) ==
    CASE op = "sendRudder" -> "BoatRuder"
      [] op = "sendThrottle" -> "BoatThrottle" \o target
      [] op = "sendEngineState" -> "BoatEngineOn"
      [] op = "sendBowThruster" -> "BowThruster"
      [] op = "sendSailControl" -> "Sail." \o target
      [] OTHER -> target

\* the runtime types of ControlValue
ControlValueKinds == {"number", "boolean", "string"}

\* C12: a send call made while Connected with a value of type ControlValue
\* writes exactly one frame, to the owned transport: the group id in string
\* form, then the JSON object {key: {t: tag, v: value}} for the call's key,
\* then one null byte and no newline. sendThrottle(0.25) with group id 1
\* writes 1{"BoatThrottle0":{"t":"F","v":0.25}} and one null byte.
C12_FrameFormat ==
    [][(/\ lastOp' \in SendOps
        /\ state = Connected
        /\ socket # 0
        /\ lastArg'.kind \in ControlValueKinds) =>
           /\ Len(written') = 1
           /\ written'[1].sock = socket
           /\ written'[1].key = KeyOf(lastOp', lastTarget')
           /\ written'[1].t \in {"I", "F", "B", "S"}
           /\ written'[1].data =
                  ToString(DefaultGroupId)
                  \o "{\"" \o KeyOf(lastOp', lastTarget') \o "\":"
                  \o "{\"t\":\"" \o written'[1].t \o "\","
                  \o "\"v\":" \o JSONvalue(written'[1].v) \o "}}"
                  \o NUL
           /\ (lastOp' = "sendThrottle" /\ lastTarget' = "0"
               /\ lastArg' = Num(Scale \div 4)) =>
                  written'[1].data =
                      "1{\"BoatThrottle0\":{\"t\":\"F\",\"v\":0.25}}\\0"]_vars

\* sendThrottle(0.25) was called while Connected and wrote its frame
C12_Witness ==
    /\ lastOp = "sendThrottle"
    /\ lastTarget = "0"
    /\ lastArg = Num(Scale \div 4)
    /\ state = Connected
    /\ Len(written) = 1
    /\ written[1].data = "1{\"BoatThrottle0\":{\"t\":\"F\",\"v\":0.25}}\\0"

\* the range a send method promises for the value it writes
Lower(op) == IF op = "sendSailControl" THEN 0 ELSE 0 - Scale
Upper(op) == Scale

\* C13 (as claimed): for every number given to sendRudder, sendThrottle or
\* sendSailControl the value written is a number of the method's range
\* ([-1, 1], for sendSailControl [0, 1]): the input itself if it lies in the
\* range, the upper bound if it lies above, the lower bound if below.
C13_Clamped ==
    [][(/\ lastOp' \in {"sendRudder", "sendThrottle", "sendSailControl"}
        /\ written' # <<>>) =>
           LET x == lastArg'
               v == written'[1].v
           IN  /\ v.kind = "number"
               /\ ~v.nan
               /\ Lower(lastOp') <= v.num
               /\ v.num <= Upper(lastOp')
               /\ ~x.nan =>
                      v.num = IF x.num > Upper(lastOp') THEN Upper(lastOp')
                              ELSE IF x.num < Lower(lastOp')
                              THEN Lower(lastOp')
                              ELSE x.num]_vars

\* the distance of two fixed-point numbers
Dist(a, b) == IF a >= b THEN a - b ELSE b - a

\* C14 (as claimed): for every number given to sendBowThruster the value
\* written is one of -1, 0, 1: an integer nearest to the input, brought into
\* [-1, 1]; sendBowThruster(0.6) writes 1.
C14_BowThrusterStep ==
    [][(lastOp' = "sendBowThruster" /\ written' # <<>>) =>
           LET x == lastArg'
               v == written'[1].v
           IN  /\ v.kind = "number"
               /\ ~v.nan
               /\ v.num \in {0 - Scale, 0, Scale}
               /\ ~x.nan =>
                      \E r \in (0 - MaxInput - 1)..(MaxInput + 1) :
                          /\ 2 * Dist(x.num, r * Scale) <= Scale
                          /\ v.num = IF r > 1 THEN Scale
                                     ELSE IF r < 0 - 1 THEN 0 - Scale
                                     ELSE r * Scale
               /\ x = Num((3 * Scale) \div 5) => v = Num(Scale)]_vars

C16_RudderThrottleFloat ==
    [][(lastOp' \in {"sendRudder", "sendThrottle"} /\ written' # <<>>) =>
           /\ written'[1].t = "F"
           /\ (lastOp' = "sendRudder" /\ lastArg' = Num(0)) =>
                  written'[1].data = "1{\"BoatRuder\":{\"t\":\"F\",\"v\":0}}\\0"]_vars

\* C17 (as claimed): a connect() call that opens a transport leaves no
\* reconnect timeout pending, and no reconnect timeout is pending when the
\* state becomes Connected: a pending timeout and an active transport never
\* coexist.
C17_ConnectCancelsTimer ==
    [][/\ (lastOp' = "connect" /\ nsock' > nsock) =>
              (~reconnectTimer' /\ pendingTimers' = 0)
       /\ state' = Connected => (~reconnectTimer' /\ pendingTimers' = 0)]_vars

\* C18: at most one reconnect timeout is armed, and the handle is set exactly
\* while it is; a close that finds one armed arms no other; the timeout
\* clears the handle when it fires, before it calls connect(); disconnect()
\* leaves no timeout armed and the handle clear.
C18_OneTimer ==
    [][/\ pendingTimers' <= 1
       /\ reconnectTimer' <=> (pendingTimers' = 1)
       /\ (lastOp' = "close" /\ reconnectTimer /\ reaction' = "none") =>
              (reconnectTimer' /\ pendingTimers' = pendingTimers)
       /\ lastOp' = "timer" =>
              (reconnectTimer /\ ~reconnectTimer' /\ pendingTimers' = 0)
       /\ lastOp' = "disconnect" =>
              (~reconnectTimer' /\ pendingTimers' = 0)]_vars

\* the second Connected session has closed and one timeout is armed
C18_Witness ==
    /\ lastOp = "close"
    /\ lastSock = 2
    /\ trans[1].up
    /\ trans[2].up
    /\ trans[1].st = "closed"
    /\ reconnectTimer
    /\ pendingTimers = 1

\* C19 (as claimed): a close met in state Error, the closing transport being
\* the one that failed, makes the state Disconnected and emits disconnected;
\* with auto-reconnect enabled a reconnect is scheduled if that transport
\* had been connected, and none is scheduled if it never connected.
C19_ErrorCloseReconnects ==
    [][(/\ lastOp' = "close"
        /\ state = Error
        /\ trans[lastSock'].st = "errored"
        /\ reaction' = "none") =>
           /\ state' = Disconnected
           /\ emitted' = <<Event("disconnected", 0, "")>>
           /\ (autoReconnect /\ trans[lastSock'].up) => reconnectTimer'
           /\ ~trans[lastSock'].up => (reconnectTimer' = reconnectTimer)]_vars

\* a bad frame: empty, a single character, or a routing character followed
\* by a text that is not JSON
BadLine(line) == Len(line) < 2 \/ ~JSONparse(Tail(line)).ok

\* C20: a data event changes neither the connection state nor the transports
\* and raises nothing; no event it delivers belongs to a bad frame, and each
\* frame that is not bad, whatever precedes it in the chunk, is dispatched:
\* exactly one message event carries its content. The buffer keeps the text
\* after the last newline.
C20_BadFrameSkipped ==
    [][lastOp' = "data" =>
           \A text \in {buffer \o toString(chunk')} :
           \A segs \in {Segments(text)} :
           \A good \in {{n \in 1..Len(segs) : ~BadLine(segs[n])}} :
               /\ UNCHANGED <<state, socket, trans, nsock, reconnectTimer,
                              pendingTimers, crashed>>
               /\ \A i \in 1..Len(emitted') : emitted'[i].frame \in good
               /\ \A n \in good :
                      Cardinality(
                          {i \in 1..Len(emitted') :
                              /\ emitted'[i].ev = "message"
                              /\ emitted'[i].frame = n
                              /\ emitted'[i].arg = JSONparse(Tail(segs[n])).body})
                      = 1
               /\ buffer' = Remainder(text)]_vars

\* a chunk held a frame that is not JSON and then a notification frame: the
\* second was dispatched, the connection is as it was
C20_Witness ==
    /\ lastOp = "data"
    /\ chunk = <<"1", "}", NL>> \o Frame("M")
    /\ emitted = <<Event("message", 2, "M"), Event("gameNotification", 2, "M")>>
    /\ buffer = <<>>
    /\ state = Connected
    /\ ~crashed

\* the per-engine throttle keys of type ControlKey
ThrottleKeys == {"BoatThrottle0", "BoatThrottle1"}

\* C21 (as claimed): whatever engine index sendThrottle is given, the key of
\* the frame it writes is BoatThrottle0 or BoatThrottle1; the default index
\* selects BoatThrottle0.
C21_ThrottleKeyInVocabulary ==
    [][(lastOp' = "sendThrottle" /\ written' # <<>>) =>
           /\ written'[1].key \in ThrottleKeys
           /\ lastTarget' = ToString(DefaultEngine) =>
                  written'[1].key = "BoatThrottle0"]_vars

\* C22: a compassDisplay event belongs to a message whose AP_display key has
\* tag S, a boatProperties or gameNotification event to a message with a
\* PlayerMessenger key; a message with neither key (one with AP_active
\* alone, or with unknown keys) yields its generic message event and nothing
\* else.
C22_UnknownKeysGenericOnly ==
    lastOp = "data" =>
        \A i \in 1..Len(emitted) :
            LET e == emitted[i]
                m == Decoded(e.arg)
            IN  /\ e.ev = "compassDisplay" =>
                       (m.AP_display.has /\ m.AP_display.t = "S")
                /\ e.ev \in {"boatProperties", "gameNotification"} =>
                       m.PlayerMessenger.has
                /\ (/\ e.ev = "message"
                    /\ ~m.PlayerMessenger.has
                    /\ ~m.AP_display.has) =>
                       \A j \in 1..Len(emitted) :
                           emitted[j].frame = e.frame => j = i

\* a chunk held a message of unknown keys and one with AP_display of tag S:
\* the first gave the generic event alone, the second a compassDisplay too
C22_Witness ==
    /\ lastOp = "data"
    /\ chunk = Frame("U") \o Frame("D")
    /\ emitted = <<Event("message", 1, "U"), Event("message", 2, "D"),
                   Event("compassDisplay", 2, "D")>>

\* frame e of the last chunk has an event named ev
HasEvent(e, ev) ==
    \E j \in 1..Len(emitted) : emitted[j] = Event(ev, e.frame, e.arg)

SocketOps == {"sockConnect", "data", "error", "close"}

\* C24 (as claimed): an event of a transport that is not the owned one does
\* not change the state (unless a subscriber calls the client from inside
\* its listener); whenever the state is Connected the owned transport
\* is connected, and whenever the owned transport is connecting the state
\* is Connecting.
C24_StaleEventsIgnored ==
    [][/\ (lastOp' \in SocketOps /\ lastSock' # socket /\ reaction' = "none")
              => state' = state
       /\ state' = Connected =>
              (socket' # 0 /\ trans'[socket'].st = "connected")
       /\ (socket' # 0 /\ trans'[socket'].st = "connecting") =>
              state' = Connecting]_vars

\* the steps that are no data event
NoDataOps == {"on", "connect", "disconnect", "sockConnect", "error", "close"}

\* C25: disconnect(), connect(), and the connect, error and close events of
\* a transport leave the buffer as it is; a data event decodes the buffer's
\* old text followed by the chunk: the buffer keeps what follows the last
\* newline, and the first frame dispatched is the old remainder and the
\* chunk up to its first newline, also when the old text was left over by an
\* earlier connection.
C25_BufferSurvives ==
    [][/\ lastOp' \in NoDataOps => buffer' = buffer
       /\ lastOp' = "data" =>
              \A text \in {buffer \o toString(chunk')} :
                  /\ buffer' = Remainder(text)
                  /\ NLs(text) # {} =>
                         \A first \in {Segments(text)[1]} :
                             ~BadLine(first) =>
                                 /\ emitted' # <<>>
                                 /\ emitted'[1] =
                                        Event("message", 1,
                                              JSONparse(Tail(first)).body)]_vars

\* the second transport has just connected, has delivered nothing yet, and
\* the buffer still holds the partial frame the first one left
C25_Witness ==
    /\ lastOp = "sockConnect"
    /\ lastSock = 2
    /\ nsock = 2
    /\ trans[1].st \in {"closed", "destroyed"}
    /\ buffer = <<"1", "{">>

\* C26 (as claimed): a data event dispatches only while the state is
\* Connected, and once a subscriber has called disconnect() from inside its
\* listener no further frame of the chunk is dispatched.
C26_NoDispatchAfterDisconnect ==
    [][lastOp' = "data" =>
           /\ state = Connected
           /\ reaction' = "disconnect" =>
                  \A i \in 1..Len(emitted') :
                      emitted'[i].frame = emitted'[1].frame]_vars

====
